---- MODULE Spec2Model ----
(***************************************************************************)
(* The court-slot reservation engine of src/app.py: the half-hour slot     *)
(* calendar, the in-memory hold store `bookings`, the lazy expiry sweep    *)
(* cleanup_expired, and the three endpoints /api/availability, /api/book   *)
(* and /api/release.                                                       *)
(*                                                                         *)
(* Representation.                                                         *)
(*  - A datetime is a number of minutes since 2025-01-01 00:00 of its own  *)
(*    clock (datetime.utcnow() for hold timestamps, datetime.now() for the *)
(*    same-day cutoff).  A timedelta is a number of minutes.               *)
(*  - A text is the sequence of its digits: the slot label "08:30" is      *)
(*    <<0,8,3,0>>, the date "2025-01-02" is <<<<2,0,2,5>>,<<0,1>>,<<0,2>>>>*)
(*    and "2025-1-2" is <<<<2,0,2,5>>,<<1>>,<<2>>>>.  Formatting and       *)
(*    parsing are computed on the digits, as the code does.                *)
(*  - A JSON value of a request is a record [t, v]: t is its JSON type.    *)
(***************************************************************************)
EXTENDS Integers, Sequences, FiniteSets, TLC

VARIABLES
    bookings,   \* app.py:45  date text -> court id -> slot label -> [held_at]
    utcnow,     \* the clock read by datetime.utcnow()
    localnow,   \* the clock read by datetime.now()
    result,     \* the response of the request just served, until the clocks advance
    nbooks,     \* number of /api/book requests served so far
    pc,         \* per worker thread: the position inside api_book
    loc         \* per worker thread: the locals of api_book

vars == <<bookings, utcnow, localnow, result, nbooks, pc, loc>>

----------------------------------------------------------------------------
(* Bounds of the exploration *)

MaxTicks == 3      \* the clocks advance at most this many times
MaxLen   == 2      \* longest slot list a request carries
MaxBooks == 2      \* at most this many book requests are served
MaxRunLen == 3     \* longest slot list of the requests that try contiguity
MaxRequests == 3   \* requests the interleaved threads serve in all

TickMinutes == {5}                       \* a clock step, in minutes
StartLocal  == 1440 + 7 * 60 + 20        \* 2025-01-02 07:20 local
StartUtc    == 1440 + 6 * 60 + 20        \* 2025-01-02 06:20 UTC

----------------------------------------------------------------------------
(* Generic helpers *)

Range(f) == {f[i] : i \in DOMAIN f}

Restrict(f, S) == [x \in S |-> f[x]]

Min(S) == CHOOSE x \in S : \A y \in S : x <= y
Max(S) == CHOOSE x \in S : \A y \in S : x >= y

\* sorted(...) of a list of integers (insertion sort, keeps duplicates)
RECURSIVE InsertInt(_, _)
InsertInt(x, s) ==
    IF s = <<>> THEN <<x>>
    ELSE IF x <= Head(s) THEN <<x>> \o s
    ELSE <<Head(s)>> \o InsertInt(x, Tail(s))

RECURSIVE SortInts(_)
SortInts(s) == IF s = <<>> THEN <<>> ELSE InsertInt(Head(s), SortInts(Tail(s)))

\* list(range(a, b))
PyRange(a, b) == [i \in 1..(IF b > a THEN b - a ELSE 0) |-> a + i - 1]

\* Python's order on str, for texts of digits
RECURSIVE LexLess(_, _)
LexLess(a, b) ==
    IF b = <<>> THEN FALSE
    ELSE IF a = <<>> THEN TRUE
    ELSE IF Head(a) # Head(b) THEN Head(a) < Head(b)
    ELSE LexLess(Tail(a), Tail(b))

\* fault: the texts in descending order
RECURSIVE SortedTextsDescending(_)
SortedTextsDescending(S) ==
    IF S = {} THEN <<>>
    ELSE LET m == CHOOSE x \in S : \A y \in S \ {x} : LexLess(y, x)
         IN  <<m>> \o SortedTextsDescending(S \ {m})

\* sorted(list(S)) for a set S of texts
RECURSIVE SortedTexts(_)
SortedTexts(S) ==
    IF S = {} THEN <<>>
    ELSE LET m == CHOOSE x \in S : \A y \in S \ {x} : LexLess(x, y)
         IN  <<m>> \o SortedTexts(S \ {m})

\* f"{n:02d}" and int(text)
Fmt02d(n) == <<n \div 10, n % 10>>

RECURSIVE IntOf(_)
IntOf(t) == IF t = <<>> THEN 0 ELSE 10 * IntOf(SubSeq(t, 1, Len(t) - 1)) + t[Len(t)]

----------------------------------------------------------------------------
(* Slot calendar, app.py:31-40 *)

RECURSIVE build_slots_from(_)
build_slots_from(h) ==
    IF h >= 21 THEN <<>>
    ELSE <<Fmt02d(h) \o <<0, 0>>, Fmt02d(h) \o <<3, 0>>>> \o build_slots_from(h + 1)

build_slots == build_slots_from(8)

SLOTS_30 == build_slots

COURTS == {"1", "2"}

\* the labels of the calendar: `s in SLOTS_30` is `s \in SlotLabels`
SlotLabels == Range(SLOTS_30)

\* SLOTS_30.index(s), 0-based: the first position that holds s
slot_index(s) ==
    (CHOOSE i \in 1..Len(SLOTS_30) :
        SLOTS_30[i] = s /\ \A j \in 1..(i - 1) : SLOTS_30[j] # s) - 1

\* hh, mm = map(int, s.split(":"))
slot_hh(s) == IntOf(SubSeq(s, 1, 2))
slot_mm(s) == IntOf(SubSeq(s, 3, 4))

----------------------------------------------------------------------------
(* Hold time to live, app.py:48-49 *)

HOLD_MINUTES == 10
HOLD_DELTA == HOLD_MINUTES

\* timedelta.seconds
hold_seconds == HOLD_DELTA * 60

----------------------------------------------------------------------------
(* Dates *)

MinutesPerDay == 24 * 60

EpochYear  == <<2, 0, 2, 5>>
EpochMonth == Fmt02d(1)

\* datetime.strftime("%Y-%m-%d"), for a clock that stays in January 2025
strftime_date(now) == <<EpochYear, EpochMonth, Fmt02d(1 + now \div MinutesPerDay)>>

DaysInMonth(m) == IF m = 2 THEN 28 ELSE IF m \in {4, 6, 9, 11} THEN 30 ELSE 31

\* datetime.strptime(s, "%Y-%m-%d") succeeds: four digits of year, one or two
\* digits of month and of day, naming a day of the calendar
valid_date(s) ==
    /\ Len(s) = 3
    /\ Len(s[1]) = 4
    /\ Len(s[2]) \in {1, 2}
    /\ Len(s[3]) \in {1, 2}
    /\ IntOf(s[2]) \in 1..12
    /\ IntOf(s[3]) \in 1..DaysInMonth(IntOf(s[2]))

\* now.replace(hour=hh, minute=mm, second=0, microsecond=0)
replace_hm(now, hh, mm) == (now \div MinutesPerDay) * MinutesPerDay + hh * 60 + mm

----------------------------------------------------------------------------
(* The hold store, app.py:42-45 *)

EmptyMap == [x \in {} |-> [held_at |-> 0]]

\* the value the defaultdict's factory makes: {"1": {}, "2": {}}
new_ledger == [c \in COURTS |-> EmptyMap]

\* bookings[date]: the defaultdict inserts the ledger on first access
touch(b, date) ==
    IF date \in DOMAIN b THEN b
    ELSE [d \in DOMAIN b \cup {date} |-> IF d = date THEN new_ledger ELSE b[d]]

\* fault: the courts of a date share one slot map
with_slot_map_shared(b, date, court, m) ==
    [b EXCEPT ![date] = [c \in COURTS |-> m]]

\* bookings[date][court] = m
with_slot_map(b, date, court, m) ==
    [b EXCEPT ![date] = [@ EXCEPT ![court] = m]]

----------------------------------------------------------------------------
(* Expiry sweep, app.py:91-108 *)

\* fault: a hold expires when its age reaches the time to live
to_delete_at_ttl(slot_map, cutoff) ==
    {s \in DOMAIN slot_map : slot_map[s].held_at <= cutoff}

\* app.py:104-105: the list to_delete of one slot map
to_delete(slot_map, cutoff) ==
    {s \in DOMAIN slot_map : slot_map[s].held_at < cutoff}

\* fault: the sweep removes nothing
cleanup_expired_noop(b, now) == b

\* fault: one call removes at most one expired hold of each slot map
cleanup_expired_one(b, now) ==
    LET cutoff == now - HOLD_DELTA
    IN  [d \in DOMAIN b |->
            [c \in DOMAIN b[d] |->
                LET old == to_delete(b[d][c], cutoff)
                IN  IF old = {} THEN b[d][c]
                    ELSE Restrict(b[d][c],
                             DOMAIN b[d][c] \ {CHOOSE s \in old : TRUE})]]

\* fault: only the slot maps of court "1" are swept
cleanup_expired_court1(b, now) ==
    LET cutoff == now - HOLD_DELTA
    IN  [d \in DOMAIN b |->
            [c \in DOMAIN b[d] |->
                IF c = "1"
                THEN Restrict(b[d][c], DOMAIN b[d][c] \ to_delete(b[d][c], cutoff))
                ELSE b[d][c]]]

cleanup_expired(b, now) ==
    LET cutoff == now - HOLD_DELTA
    IN  [d \in DOMAIN b |->
            [c \in DOMAIN b[d] |->
                Restrict(b[d][c], DOMAIN b[d][c] \ to_delete(b[d][c], cutoff))]]

\* fault: reading the ledger stamps its holds anew
court_busy_slots_for_date_restamp(b, date, court_id, now) ==
    LET b1 == touch(cleanup_expired(b, now), date)
        b2 == [b1 EXCEPT ![date] = [@ EXCEPT ![court_id] =
                  [s \in DOMAIN @ |-> [held_at |-> now]]]]
    IN  [b |-> b2, busy |-> DOMAIN b2[date][court_id]]

\* app.py:111-117: returns the store after the sweep and the access, and the set
court_busy_slots_for_date(b, date, court_id, now) ==
    LET b1 == touch(cleanup_expired(b, now), date)
    IN  [b |-> b1, busy |-> DOMAIN b1[date][court_id]]

----------------------------------------------------------------------------
(* Same-day cutoff *)

bumper_min == 30      \* app.py:121, the default of slots_blocked_today
book_bumper == 30     \* app.py:207, the literal of api_book

\* fault: the slot that starts exactly at the cutoff is not blocked
slots_blocked_today_strict(now_local) ==
    LET cutoff == now_local + bumper_min
    IN  SelectSeq(SLOTS_30,
            LAMBDA s : replace_hm(now_local, slot_hh(s), slot_mm(s)) < cutoff)

\* app.py:121-136
slots_blocked_today(now_local) ==
    LET cutoff == now_local + bumper_min
    IN  SelectSeq(SLOTS_30,
            LAMBDA s : replace_hm(now_local, slot_hh(s), slot_mm(s)) <= cutoff)

\* fault: the slot that starts exactly at the cutoff is bookable
book_too_soon_strict(slots, now_local) ==
    LET cutoff == now_local + book_bumper
    IN  \E i \in DOMAIN slots :
            replace_hm(now_local, slot_hh(slots[i]), slot_mm(slots[i])) < cutoff

\* app.py:206-214: the loop returns the rejection at the first slot too soon
book_too_soon(slots, now_local) ==
    LET cutoff == now_local + book_bumper
    IN  \E i \in DOMAIN slots :
            replace_hm(now_local, slot_hh(slots[i]), slot_mm(slots[i])) <= cutoff

----------------------------------------------------------------------------
(* Fragments of api_book and api_release *)

\* fault: only the span of the indices is compared with their number
contiguous_by_span(slots) ==
    LET idxs == SortInts([i \in DOMAIN slots |-> slot_index(slots[i])])
    IN  idxs[Len(idxs)] - idxs[1] + 1 <= Len(idxs)

\* fault: the number of indices is compared with the span they cover
contiguous_by_count(slots) ==
    LET idxs == SortInts([i \in DOMAIN slots |-> slot_index(slots[i])])
    IN  idxs[Len(idxs)] - idxs[1] + 1 = Len(idxs)

\* app.py:221-222: idxs == list(range(min(idxs), max(idxs) + 1))
contiguous(slots) ==
    LET idxs == SortInts([i \in DOMAIN slots |-> slot_index(slots[i])])
    IN  idxs = PyRange(Min(Range(idxs)), Max(Range(idxs)) + 1)

\* fault: no requested slot is found in the slot map
conflicts_of_none(slot_map, slots) ==
    SelectSeq(slots, LAMBDA s : FALSE)

\* fault: only the first conflicting slot is reported
conflicts_of_first(slot_map, slots) ==
    LET c == SelectSeq(slots, LAMBDA s : s \in DOMAIN slot_map)
    IN  IF c = <<>> THEN c ELSE <<c[1]>>

\* app.py:229
conflicts_of(slot_map, slots) ==
    SelectSeq(slots, LAMBDA s : s \in DOMAIN slot_map)

\* fault: only the first requested slot is held
put_holds_first(slot_map, slots, now) ==
    [s \in DOMAIN slot_map \cup {slots[1]} |->
        IF s = slots[1] THEN [held_at |-> now] ELSE slot_map[s]]

\* app.py:235-236
put_holds(slot_map, slots, now) ==
    [s \in DOMAIN slot_map \cup Range(slots) |->
        IF s \in Range(slots) THEN [held_at |-> now] ELSE slot_map[s]]

\* app.py:239, as a datetime
expires_at(now) == now + HOLD_DELTA

\* fault: every requested slot is reported released
release_loop_all(slot_map, slots, released) ==
    [slot_map |-> Restrict(slot_map, DOMAIN slot_map \ Range(slots)),
     released |-> released \o slots]

\* fault: the released slots are reported and their holds are kept
release_loop_keep(slot_map, slots, released) ==
    [slot_map |-> slot_map,
     released |-> released \o SelectSeq(slots, LAMBDA s : s \in DOMAIN slot_map)]

\* app.py:457-461: the store after the loop, and the list released
RECURSIVE release_loop(_, _, _)
release_loop(slot_map, slots, released) ==
    IF slots = <<>> THEN [slot_map |-> slot_map, released |-> released]
    ELSE LET s == Head(slots)
         IN  IF s \in DOMAIN slot_map
             THEN release_loop(Restrict(slot_map, DOMAIN slot_map \ {s}),
                               Tail(slots), Append(released, s))
             ELSE release_loop(slot_map, Tail(slots), released)

----------------------------------------------------------------------------
(* Responses.  `kind` names the outcome: "Ok", or the rejection the error  *)
(* message of the response stands for:                                     *)
(*   "Neplatny datum." InvalidDate, "Neznamy kurt." UnknownResource,       *)
(*   "Nevybrali ste cas." / "Chybaju sloty." EmptySelection,               *)
(*   "Neplatne casove sloty." InvalidSlot, "Nie je mozne rezervovat        *)
(*   minule alebo prilis skore sloty." TooSoon, "Vyber musi byt suvisly."  *)
(*   NonContiguous, "Konflikt: obsadene." Conflict;                        *)
(* or "InternalFault": an exception no validation step catches, answered   *)
(* 500 by the except clause of api_book (app.py:250-252) and, in the       *)
(* handlers without one, by the server.                                    *)

NoResult == [op |-> "none", code |-> 0, kind |-> "none"]

Rejected(op, code, kind) == [op |-> op, code |-> code, kind |-> kind]

\* `not date`: None, 0, "" and [] are false
no_date(date) ==
    \/ date.t = "none"
    \/ date.t = "int" /\ date.v = 0
    \/ date.t \in {"str", "list"} /\ date.v = <<>>

\* valid_date(date) raises TypeError, which it does not catch: strptime takes
\* a str only
date_raises(date) == ~no_date(date) /\ date.t # "str"

\* `not date or not valid_date(date)`, for a date that is false or a str
bad_date(date) == no_date(date) \/ ~valid_date(date.v)

\* `court not in COURTS` raises TypeError: a list is not hashable
court_raises(court) == court.t = "list"

\* `(data.get("name") or "").strip()` raises AttributeError: a true value
\* that is not a str has no strip
strip_raises(x) ==
    \/ x.t = "int" /\ x.v # 0
    \/ x.t = "list" /\ x.v # <<>>

\* `not isinstance(slots, list) or not slots`
bad_selection(slots) == slots.t # "list" \/ slots.v = <<>>

\* `any(s not in SLOTS_30 for s in slots)`
bad_slots(slots) == \E i \in DOMAIN slots.v : slots.v[i] \notin SlotLabels

----------------------------------------------------------------------------
(* GET /api/availability, app.py:149-177.  Each handler is an operator     *)
(* from the store, the request and the two clock readings to the store     *)
(* after the request (b) and the response (r).                             *)

api_availability(b, date, now_local, now_utc) ==
    IF bad_date(date)
    THEN [b |-> b, r |-> Rejected("availability", 400, "InvalidDate")]
    ELSE LET b0 == cleanup_expired(b, now_utc)
             q1 == court_busy_slots_for_date(b0, date.v, "1", now_utc)
             q2 == court_busy_slots_for_date(q1.b, date.v, "2", now_utc)
             today_str == strftime_date(now_local)
             blocked == IF date.v = today_str
                        THEN slots_blocked_today(now_local) ELSE <<>>
         IN  [b |-> q2.b,
              r |-> [op |-> "availability", code |-> 200, kind |-> "Ok",
                     date |-> date.v,
                     slots |-> SLOTS_30,
                     courts |-> [c \in COURTS |->
                                    IF c = "1" THEN SortedTexts(q1.busy)
                                               ELSE SortedTexts(q2.busy)],
                     blocked |-> blocked]]

----------------------------------------------------------------------------
(* POST /api/book, app.py:180-252 *)

\* fault: on a conflict the requested slots that are free are held all the same
book_commit_partial(b1, date, court, slots, now_utc) ==
    LET b2 == touch(b1, date.v)
        slot_map == b2[date.v][court.v]
        conflicts == conflicts_of(slot_map, slots.v)
        free == SelectSeq(slots.v, LAMBDA s : s \notin DOMAIN slot_map)
        b3 == with_slot_map(b2, date.v, court.v,
                            put_holds(slot_map, free, now_utc))
    IN  IF conflicts # <<>>
        THEN [b |-> b3,
              r |-> [op |-> "book", code |-> 409, kind |-> "Conflict",
                     conflicts |-> conflicts]]
        ELSE [b |-> b3,
              r |-> [op |-> "book", code |-> 200, kind |-> "Ok",
                     reserved |-> slots.v,
                     court |-> court.v,
                     date |-> date.v,
                     expires_at |-> expires_at(now_utc),
                     hold_seconds |-> hold_seconds]]

\* app.py:225-248: conflict check and commit on the swept store
book_commit(b1, date, court, slots, now_utc) ==
    LET b2 == touch(b1, date.v)
        slot_map == b2[date.v][court.v]
        conflicts == conflicts_of(slot_map, slots.v)
    IN  IF conflicts # <<>>
        THEN [b |-> b2,
              r |-> [op |-> "book", code |-> 409, kind |-> "Conflict",
                     conflicts |-> conflicts]]
        ELSE [b |-> with_slot_map(b2, date.v, court.v,
                                  put_holds(slot_map, slots.v, now_utc)),
              r |-> [op |-> "book", code |-> 200, kind |-> "Ok",
                     reserved |-> slots.v,
                     court |-> court.v,
                     date |-> date.v,
                     expires_at |-> expires_at(now_utc),
                     hold_seconds |-> hold_seconds]]

\* app.py:194-215: the rejection before the sweep, or "none"
book_validate(date, court, slots, now_local) ==
    IF date_raises(date) THEN "InternalFault"
    ELSE IF bad_date(date) THEN "InvalidDate"
    ELSE IF court_raises(court) THEN "InternalFault"
    ELSE IF court.t # "str" \/ court.v \notin COURTS THEN "UnknownResource"
    ELSE IF bad_selection(slots) THEN "EmptySelection"
    ELSE IF bad_slots(slots) THEN "InvalidSlot"
    ELSE IF date.v = strftime_date(now_local) /\ book_too_soon(slots.v, now_local)
         THEN "TooSoon"
    ELSE "none"

\* fault: the conflict check is made before the contiguity check
api_book_conflict_first(b, date, court, slots, now_local, now_utc) ==
    LET v == book_validate(date, court, slots, now_local)
    IN  IF v # "none"
        THEN [b |-> b,
              r |-> Rejected("book", IF v = "InternalFault" THEN 500 ELSE 400, v)]
        ELSE LET b1 == cleanup_expired(b, now_utc)
                 o  == book_commit(b1, date, court, slots, now_utc)
             IN  IF o.r.kind = "Conflict" THEN o
                 ELSE IF ~contiguous(slots.v)
                 THEN [b |-> b1, r |-> Rejected("book", 400, "NonContiguous")]
                 ELSE o

api_book(b, date, court, slots, now_local, now_utc) ==
    LET v == book_validate(date, court, slots, now_local)
    IN  IF v # "none"
        THEN [b |-> b,
              r |-> Rejected("book", IF v = "InternalFault" THEN 500 ELSE 400, v)]
        ELSE LET b1 == cleanup_expired(b, now_utc)
             IN  IF ~contiguous(slots.v)
                 THEN [b |-> b1, r |-> Rejected("book", 400, "NonContiguous")]
                 ELSE book_commit(b1, date, court, slots, now_utc)

----------------------------------------------------------------------------
(* POST /api/release, app.py:433-463 *)

\* str(n) of a one-digit int, str(l) of a list of one str
DigitText == <<"0", "1", "2", "3", "4", "5", "6", "7", "8", "9">>
py_str(x) ==
    IF x.t = "int" THEN DigitText[x.v + 1] ELSE "['" \o x.v[1] \o "']"

\* court = str(data.get("court") or "")
release_court(court) ==
    IF court.t = "none" THEN ""
    ELSE IF court.t = "str" THEN court.v
    ELSE IF court.t = "int" /\ court.v = 0 THEN ""
    ELSE IF court.t = "list" /\ court.v = <<>> THEN ""
    ELSE py_str(court)

\* slots = data.get("slots") or []
release_slots(slots) ==
    IF \/ slots.t = "none"
       \/ slots.t = "int" /\ slots.v = 0
       \/ slots.t = "list" /\ slots.v = <<>>
    THEN [t |-> "list", v |-> <<>>]
    ELSE slots

api_release(b, date, court, slots0, now_utc) ==
    LET slots == release_slots(slots0)
    IN
    IF date_raises(date) THEN [b |-> b, r |-> Rejected("release", 500, "InternalFault")]
    ELSE IF bad_date(date) THEN [b |-> b, r |-> Rejected("release", 400, "InvalidDate")]
    ELSE IF release_court(court) \notin COURTS
         THEN [b |-> b, r |-> Rejected("release", 400, "UnknownResource")]
    ELSE IF bad_selection(slots)
         THEN [b |-> b, r |-> Rejected("release", 400, "EmptySelection")]
    ELSE IF bad_slots(slots)
         THEN [b |-> b, r |-> Rejected("release", 400, "InvalidSlot")]
    ELSE LET b1 == touch(cleanup_expired(b, now_utc), date.v)
             c  == release_court(court)
             l  == release_loop(b1[date.v][c], slots.v, <<>>)
         IN  [b |-> with_slot_map(b1, date.v, c, l.slot_map),
              r |-> [op |-> "release", code |-> 200, kind |-> "Ok",
                     released |-> l.released]]

----------------------------------------------------------------------------
(* Requests the clients send *)

Str(v)  == [t |-> "str", v |-> v]
List(v) == [t |-> "list", v |-> v]

Today     == <<EpochYear, <<0, 1>>, <<0, 2>>>>     \* "2025-01-02"
Yesterday == <<EpochYear, <<0, 1>>, <<0, 1>>>>     \* "2025-01-01"

DateInputs == {Str(Today), Str(Yesterday)}

\* "08:00", "08:30", "09:00"
ReqLabels == {SLOTS_30[1], SLOTS_30[2], SLOTS_30[3]}

\* every list of at most MaxLen of these labels: runs, gaps, repetitions
AllLists == {List(s) : s \in UNION {[1..n -> ReqLabels] : n \in 1..MaxLen}}

FewLists == {List(<<SLOTS_30[2]>>), List(<<SLOTS_30[1], SLOTS_30[2]>>)}

\* (date, court, slots) of the book and release requests
SlotRequests ==
    ({Str(Today)} \X {Str("1")} \X AllLists)
        \cup ({Str(Today)} \X {Str("2")} \X FewLists)
        \cup ({Str(Yesterday)} \X {Str("1")} \X FewLists)

Threads == {"w1", "w2"}

----------------------------------------------------------------------------
(* Request bodies: any JSON value, app.py:187-192 and app.py:438-441 *)

Null   == [t |-> "none", v |-> 0]
Num(n) == [t |-> "int", v |-> n]

\* a key the object does not have
Absent == [t |-> "absent", v |-> 0]

\* the JSON object with these values under its keys
Object(date, court, slots, name, email) ==
    [t |-> "object",
     v |-> [date |-> date, court |-> court, slots |-> slots,
            name |-> name, email |-> email]]

EmptyDict ==
    [date |-> Absent, court |-> Absent, slots |-> Absent,
     name |-> Absent, email |-> Absent]

\* `data.get` raises AttributeError: the body is a true value that is not an
\* object, so `request.get_json(force=True) or {}` is that value
get_raises(payload) ==
    \/ payload.t = "int" /\ payload.v # 0
    \/ payload.t = "list" /\ payload.v # <<>>

\* request.get_json(force=True) or {}
get_json_or_empty(payload) ==
    IF payload.t = "object" THEN payload.v ELSE EmptyDict

\* data.get(key, default), given the entry of the key
dict_get(x, default) == IF x.t = "absent" THEN default ELSE x

\* api_book from the body of the request, app.py:186-252
book_request(b, payload, now_local, now_utc) ==
    IF get_raises(payload)
    THEN [b |-> b, r |-> Rejected("book", 500, "InternalFault")]
    ELSE LET data == get_json_or_empty(payload)
         IN  IF \/ strip_raises(dict_get(data.name, Null))
                \/ strip_raises(dict_get(data.email, Null))
             THEN [b |-> b, r |-> Rejected("book", 500, "InternalFault")]
             ELSE api_book(b, dict_get(data.date, Null), dict_get(data.court, Null),
                           dict_get(data.slots, List(<<>>)), now_local, now_utc)

\* api_release from the body of the request, app.py:438-463
release_request(b, payload, now_utc) ==
    IF get_raises(payload)
    THEN [b |-> b, r |-> Rejected("release", 500, "InternalFault")]
    ELSE LET data == get_json_or_empty(payload)
         IN  api_release(b, dict_get(data.date, Null), dict_get(data.court, Null),
                         dict_get(data.slots, Null), now_utc)

\* "2025-13-01"
BadDate == <<EpochYear, <<1, 3>>, <<0, 1>>>>

\* "07:30", a label outside the calendar
BadLabel == <<0, 7, 3, 0>>

DateValues ==
    {Absent, Null, Str(<<>>), Str(Today), Str(BadDate), Num(0), Num(5),
     List(<<Today>>)}

CourtValues == {Absent, Str("1"), Str("3"), Num(1), List(<<"1">>)}

SlotsValues ==
    {Absent, Null, Num(5), List(<<>>), List(<<BadLabel>>),
     List(<<SLOTS_30[2]>>), List(<<SLOTS_30[2], SLOTS_30[4]>>)}

NameValues == {Absent, Str("Ann"), Num(5)}

\* the bodies of the POST requests
Payloads ==
    {Null, Num(5), List(<<1>>)}
        \cup {Object(d, c, sl, n, Absent) :
                 d \in DateValues, c \in CourtValues, sl \in SlotsValues,
                 n \in NameValues}

\* request.args.get("date"): a str, or None
DateArgs == {Null, Str(<<>>), Str(Today), Str(BadDate)}

----------------------------------------------------------------------------
(* The server handling one request at a time *)

Init ==
    /\ bookings = [d \in {} |-> new_ledger]
    /\ utcnow = StartUtc
    /\ localnow = StartLocal
    /\ result = NoResult
    /\ nbooks = 0
    /\ pc = [t \in Threads |-> "idle"]
    /\ loc = [t \in Threads |-> <<>>]

Tick ==
    /\ utcnow < StartUtc + MaxTicks * Max(TickMinutes)
    /\ \E m \in TickMinutes :
        /\ utcnow' = utcnow + m
        /\ localnow' = localnow + m
    /\ result' = NoResult
    /\ UNCHANGED <<bookings, nbooks, pc, loc>>

Availability ==
    \E date \in DateInputs :
        LET o == api_availability(bookings, date, localnow, utcnow)
        IN  /\ bookings' = o.b
            /\ result' = o.r
            /\ UNCHANGED <<utcnow, localnow, nbooks, pc, loc>>

Book ==
    /\ nbooks < MaxBooks
    /\ \E q \in SlotRequests :
        LET o == api_book(bookings, q[1], q[2], q[3], localnow, utcnow)
        IN  /\ bookings' = o.b
            /\ result' = o.r
            /\ nbooks' = nbooks + 1
            /\ UNCHANGED <<utcnow, localnow, pc, loc>>

Release ==
    \E q \in SlotRequests :
        LET o == api_release(bookings, q[1], q[2], q[3], utcnow)
        IN  /\ bookings' = o.b
            /\ result' = o.r
            /\ UNCHANGED <<utcnow, localnow, nbooks, pc, loc>>

Next == Tick \/ Availability \/ Book \/ Release

Spec == Init /\ [][Next]_vars

----------------------------------------------------------------------------
(* The server handling one request at a time, whatever the request holds *)

AvailabilityAny ==
    \E date \in DateArgs :
        LET o == api_availability(bookings, date, localnow, utcnow)
        IN  /\ bookings' = o.b
            /\ result' = o.r
            /\ UNCHANGED <<utcnow, localnow, nbooks, pc, loc>>

BookAny ==
    /\ nbooks < MaxBooks
    /\ \E payload \in Payloads :
        LET o == book_request(bookings, payload, localnow, utcnow)
        IN  /\ bookings' = o.b
            /\ result' = o.r
            /\ nbooks' = nbooks + 1
            /\ UNCHANGED <<utcnow, localnow, pc, loc>>

ReleaseAny ==
    \E payload \in Payloads :
        LET o == release_request(bookings, payload, utcnow)
        IN  /\ bookings' = o.b
            /\ result' = o.r
            /\ UNCHANGED <<utcnow, localnow, nbooks, pc, loc>>

NextAny == Tick \/ AvailabilityAny \/ BookAny \/ ReleaseAny

SpecAny == Init /\ [][NextAny]_vars

----------------------------------------------------------------------------
(* The server taking book requests with longer slot lists; loc keeps the   *)
(* fields of the request last served.                                      *)

Tomorrow == <<EpochYear, <<0, 1>>, <<0, 3>>>>     \* "2025-01-03"

\* every list of at most MaxRunLen of the labels 08:00, 08:30, 09:00
LongLists == {List(s) : s \in UNION {[1..n -> ReqLabels] : n \in 1..MaxRunLen}}

LongRequests == {Str(Today)} \X {Str("1")} \X LongLists

BookLong ==
    /\ nbooks < MaxBooks
    /\ \E q \in LongRequests :
        LET o == api_book(bookings, q[1], q[2], q[3], localnow, utcnow)
        IN  /\ bookings' = o.b
            /\ result' = o.r
            /\ nbooks' = nbooks + 1
            /\ loc' = [loc EXCEPT !["w1"] = [date |-> q[1], court |-> q[2], slots |-> q[3]]]
            /\ UNCHANGED <<utcnow, localnow, pc>>

NextLong == Tick \/ BookLong

SpecLong == Init /\ [][NextLong]_vars

----------------------------------------------------------------------------
(* The server handling requests that write today's date with and without   *)
(* the leading zeros: strptime takes both (app.py:52-57), the store and    *)
(* the comparison with today_str take the text as sent (app.py:203, 226)   *)

TodayShort == <<EpochYear, <<1>>, <<2>>>>          \* "2025-1-2"

AliasDates == {Str(Today), Str(TodayShort)}

AliasRequests == AliasDates \X {Str("1")} \X FewLists

AvailabilityAlias ==
    \E date \in AliasDates :
        LET o == api_availability(bookings, date, localnow, utcnow)
        IN  /\ bookings' = o.b
            /\ result' = o.r
            /\ UNCHANGED <<utcnow, localnow, nbooks, pc, loc>>

BookAlias ==
    /\ nbooks < MaxRequests
    /\ \E q \in AliasRequests :
        LET o == api_book(bookings, q[1], q[2], q[3], localnow, utcnow)
        IN  /\ bookings' = o.b
            /\ result' = o.r
            /\ nbooks' = nbooks + 1
            /\ UNCHANGED <<utcnow, localnow, pc, loc>>

ReleaseAlias ==
    \E q \in AliasRequests :
        LET o == api_release(bookings, q[1], q[2], q[3], utcnow)
        IN  /\ bookings' = o.b
            /\ result' = o.r
            /\ UNCHANGED <<utcnow, localnow, nbooks, pc, loc>>

NextAlias == Tick \/ AvailabilityAlias \/ BookAlias \/ ReleaseAlias

SpecAlias == Init /\ [][NextAlias]_vars

----------------------------------------------------------------------------
(* The server when time keeps advancing and availability keeps being       *)
(* asked, and no hold is released.  The clock of the model stops after     *)
(* MaxTicks steps, so a book request is taken only while the clock can     *)
(* still pass the expiry of the hold it would create.                      *)

BookEarly ==
    /\ utcnow + HOLD_DELTA < StartUtc + MaxTicks * Max(TickMinutes)
    /\ Book

NextLapse == Tick \/ Availability \/ BookEarly

SpecLapse ==
    /\ Init
    /\ [][NextLapse]_vars
    /\ WF_vars(Tick)
    /\ WF_vars(Availability)

----------------------------------------------------------------------------
(* The threaded server (app.run, app.py:811-813): each worker thread runs  *)
(* api_book for one request, and the threads interleave between the        *)
(* statements of the handler.  No statement of the handler takes a lock.   *)

ConcRequests ==
    {Str(Today)} \X {Str("1")} \X
        {List(<<SLOTS_30[2]>>), List(<<SLOTS_30[2], SLOTS_30[3]>>),
         List(<<SLOTS_30[1], SLOTS_30[2]>>), List(<<SLOTS_30[2], SLOTS_30[4]>>)}

Finish(t, r) ==
    /\ pc' = [pc EXCEPT ![t] = "done"]
    /\ loc' = [loc EXCEPT ![t] = [@ EXCEPT !.r = r]]

\* app.py:187-215: read the request, validate, apply the cutoff
BookBegin(t) ==
    /\ pc[t] = "idle"
    /\ \E q \in ConcRequests :
        LET v == book_validate(q[1], q[2], q[3], localnow)
            l == [date |-> q[1], court |-> q[2], slots |-> q[3],
                  now |-> 0, i |-> 1, r |-> NoResult]
        IN  IF v # "none"
            THEN /\ pc' = [pc EXCEPT ![t] = "done"]
                 /\ loc' = [loc EXCEPT ![t] = [l EXCEPT !.r =
                        Rejected("book", IF v = "InternalFault" THEN 500 ELSE 400, v)]]
            ELSE /\ pc' = [pc EXCEPT ![t] = "sweep"]
                 /\ loc' = [loc EXCEPT ![t] = l]
    /\ UNCHANGED <<bookings, utcnow, localnow, result, nbooks>>

\* app.py:218-223: the sweep, then the contiguity check
BookSweep(t) ==
    /\ pc[t] = "sweep"
    /\ bookings' = cleanup_expired(bookings, utcnow)
    /\ IF ~contiguous(loc[t].slots.v)
       THEN Finish(t, Rejected("book", 400, "NonContiguous"))
       ELSE /\ pc' = [pc EXCEPT ![t] = "check"]
            /\ loc' = loc
    /\ UNCHANGED <<utcnow, localnow, result, nbooks>>

\* app.py:226-234: the conflict check, then `now = datetime.utcnow()`
BookCheck(t) ==
    /\ pc[t] = "check"
    /\ LET b2 == touch(bookings, loc[t].date.v)
           conflicts == conflicts_of(b2[loc[t].date.v][loc[t].court.v], loc[t].slots.v)
       IN  /\ bookings' = b2
           /\ IF conflicts # <<>>
              THEN Finish(t, [op |-> "book", code |-> 409, kind |-> "Conflict",
                              conflicts |-> conflicts])
              ELSE /\ pc' = [pc EXCEPT ![t] = "write"]
                   /\ loc' = [loc EXCEPT ![t] = [@ EXCEPT !.now = utcnow, !.i = 1]]
    /\ UNCHANGED <<utcnow, localnow, result, nbooks>>

\* app.py:235-248: one turn of the loop that writes the holds; after the last
\* turn, the response
BookWrite(t) ==
    /\ pc[t] = "write"
    /\ LET l == loc[t]
           d == l.date.v
           c == l.court.v
       IN  /\ bookings' = with_slot_map(bookings, d, c,
                              put_holds(bookings[d][c], <<l.slots.v[l.i]>>, l.now))
           /\ IF l.i < Len(l.slots.v)
              THEN /\ loc' = [loc EXCEPT ![t] = [@ EXCEPT !.i = l.i + 1]]
                   /\ pc' = pc
              ELSE Finish(t, [op |-> "book", code |-> 200, kind |-> "Ok",
                              reserved |-> l.slots.v, court |-> c, date |-> d,
                              expires_at |-> expires_at(l.now),
                              hold_seconds |-> hold_seconds])
    /\ UNCHANGED <<utcnow, localnow, result, nbooks>>

NextConc ==
    \/ Tick
    \/ \E t \in Threads : BookBegin(t)
    \/ \E t \in Threads : BookSweep(t)
    \/ \E t \in Threads : BookCheck(t)
    \/ \E t \in Threads : BookWrite(t)

SpecConc == Init /\ [][NextConc]_vars

----------------------------------------------------------------------------
(* The threaded server, statement by statement: each worker thread serves  *)
(* one request after another with api_book, api_release or                 *)
(* api_availability, and the threads interleave between the statements.    *)
(* cleanup_expired is a loop over the slot maps of list(bookings.items()): *)
(* for each map it first builds the list to_delete and then runs           *)
(* `del slot_map[slot]` for each of its slots (app.py:100-108).  A `del`   *)
(* of a slot that is no longer in the map raises KeyError.                 *)

\* (date, court, slots) of the requests the threads serve
StepRequests == {<<Str(Today), Str("1"), List(<<SLOTS_30[2]>>)>>}

StepOps == {"book", "release", "availability"}

\* a set of dates as a list; bookings of these requests has one date
RECURSIVE ListOf(_)
ListOf(S) ==
    IF S = {} THEN <<>>
    ELSE LET x == CHOOSE y \in S : TRUE IN <<x>> \o ListOf(S \ {x})

\* the slot maps the loops of cleanup_expired visit: for each date of
\* list(bookings.items()), the courts "1" and "2"
sweep_maps(b) ==
    LET ds == ListOf(DOMAIN b)
    IN  [k \in 1..(2 * Len(ds)) |->
            <<ds[(k + 1) \div 2], IF k % 2 = 1 THEN "1" ELSE "2">>]

\* app.py:97-100: `now`, `cutoff` and the list of the outer loop
sweep_start(l) ==
    [l EXCEPT !.cutoff = utcnow - HOLD_DELTA, !.maps = sweep_maps(bookings),
              !.todo = <<>>]

Fault(op) == Rejected(op, 500, "InternalFault")

\* the first statements of a handler up to the start of its first sweep
StepBegin(t) ==
    /\ pc[t] = "idle"
    /\ nbooks < MaxRequests
    /\ nbooks' = nbooks + 1
    /\ \E op \in StepOps, q \in StepRequests :
        LET l == [op |-> op, date |-> q[1], court |-> q[2], slots |-> q[3],
                  cutoff |-> 0, maps |-> <<>>, todo |-> <<>>, map |-> <<>>,
                  phase |-> 1, now |-> 0, i |-> 1, busy |-> <<>>, r |-> NoResult]
            v == IF op = "book" THEN book_validate(q[1], q[2], q[3], localnow)
                 ELSE "none"
        IN  IF v # "none"
            THEN /\ pc' = [pc EXCEPT ![t] = "done"]
                 /\ loc' = [loc EXCEPT ![t] = [l EXCEPT !.r = Rejected(op, 400, v)]]
            ELSE /\ pc' = [pc EXCEPT ![t] = "collect"]
                 /\ loc' = [loc EXCEPT ![t] = sweep_start(l)]
    /\ UNCHANGED <<bookings, utcnow, localnow, result>>

\* app.py:104-105: the list to_delete of the next slot map
SweepCollect(t) ==
    /\ pc[t] = "collect"
    /\ loc[t].maps # <<>>
    /\ LET m == Head(loc[t].maps)
           old == SortedTexts(to_delete(bookings[m[1]][m[2]], loc[t].cutoff))
       IN  /\ loc' = [loc EXCEPT ![t] = [@ EXCEPT !.maps = Tail(@), !.map = m,
                                                  !.todo = old]]
           /\ pc' = [pc EXCEPT ![t] = IF old = <<>> THEN "collect" ELSE "delete"]
    /\ UNCHANGED <<bookings, utcnow, localnow, result, nbooks>>

\* app.py:107-108: `del slot_map[slot]` for the next slot of to_delete
SweepDelete(t) ==
    /\ pc[t] = "delete"
    /\ LET m == loc[t].map
           s == Head(loc[t].todo)
       IN  IF s \in DOMAIN bookings[m[1]][m[2]]
           THEN /\ bookings' = with_slot_map(bookings, m[1], m[2],
                                   Restrict(bookings[m[1]][m[2]],
                                            DOMAIN bookings[m[1]][m[2]] \ {s}))
                /\ loc' = [loc EXCEPT ![t] = [@ EXCEPT !.todo = Tail(@)]]
                /\ pc' = [pc EXCEPT ![t] =
                             IF Tail(loc[t].todo) = <<>> THEN "collect" ELSE "delete"]
           ELSE /\ bookings' = bookings
                /\ Finish(t, Fault(loc[t].op))
    /\ UNCHANGED <<utcnow, localnow, result, nbooks>>

\* the sweep is over: the handler goes on
SweepEnd(t) ==
    /\ pc[t] = "collect"
    /\ loc[t].maps = <<>>
    /\ IF loc[t].op = "book"
       THEN IF ~contiguous(loc[t].slots.v)
            THEN Finish(t, Rejected("book", 400, "NonContiguous"))
            ELSE /\ pc' = [pc EXCEPT ![t] = "check"]
                 /\ loc' = loc
       ELSE IF loc[t].op = "release"
       THEN /\ pc' = [pc EXCEPT ![t] = "rcheck"]
            /\ loc' = [loc EXCEPT ![t] = [@ EXCEPT !.i = 1]]
       ELSE IF loc[t].phase = 1
            \* api_availability's own sweep is over: court_busy_slots_for_date
            \* starts with another
            THEN /\ pc' = pc
                 /\ loc' = [loc EXCEPT ![t] = [sweep_start(@) EXCEPT !.phase = 2]]
            ELSE /\ pc' = [pc EXCEPT ![t] = "read"]
                 /\ loc' = loc
    /\ UNCHANGED <<bookings, utcnow, localnow, result, nbooks>>

\* app.py:226-234 in a thread of this server
StepBookCheck(t) ==
    /\ pc[t] = "check"
    /\ loc[t].op = "book"
    /\ LET b2 == touch(bookings, loc[t].date.v)
           conflicts == conflicts_of(b2[loc[t].date.v][loc[t].court.v], loc[t].slots.v)
       IN  /\ bookings' = b2
           /\ IF conflicts # <<>>
              THEN Finish(t, [op |-> "book", code |-> 409, kind |-> "Conflict",
                              conflicts |-> conflicts])
              ELSE /\ pc' = [pc EXCEPT ![t] = "write"]
                   /\ loc' = [loc EXCEPT ![t] = [@ EXCEPT !.now = utcnow, !.i = 1]]
    /\ UNCHANGED <<utcnow, localnow, result, nbooks>>

\* app.py:235-248 in a thread of this server
StepBookWrite(t) ==
    /\ pc[t] = "write"
    /\ LET l == loc[t]
           d == l.date.v
           c == l.court.v
       IN  /\ bookings' = with_slot_map(bookings, d, c,
                              put_holds(bookings[d][c], <<l.slots.v[l.i]>>, l.now))
           /\ IF l.i < Len(l.slots.v)
              THEN /\ loc' = [loc EXCEPT ![t] = [@ EXCEPT !.i = l.i + 1]]
                   /\ pc' = pc
              ELSE Finish(t, [op |-> "book", code |-> 200, kind |-> "Ok",
                              reserved |-> l.slots.v, court |-> c, date |-> d,
                              expires_at |-> expires_at(l.now),
                              hold_seconds |-> hold_seconds])
    /\ UNCHANGED <<utcnow, localnow, result, nbooks>>

\* app.py:454-459: `slot_map = bookings[date][court]`, then `if s in slot_map`
\* for the next slot; after the last slot, the response
ReleaseCheck(t) ==
    /\ pc[t] = "rcheck"
    /\ LET l == loc[t]
           b2 == touch(bookings, l.date.v)
       IN  /\ bookings' = b2
           /\ IF l.i > Len(l.slots.v)
              THEN Finish(t, [op |-> "release", code |-> 200, kind |-> "Ok",
                              released |-> l.busy])
              ELSE IF l.slots.v[l.i] \in DOMAIN b2[l.date.v][l.court.v]
                   THEN /\ pc' = [pc EXCEPT ![t] = "rdel"]
                        /\ loc' = loc
                   ELSE /\ pc' = pc
                        /\ loc' = [loc EXCEPT ![t] = [@ EXCEPT !.i = l.i + 1]]
    /\ UNCHANGED <<utcnow, localnow, result, nbooks>>

\* app.py:460-461: `del slot_map[s]`, `released.append(s)`
ReleaseDelete(t) ==
    /\ pc[t] = "rdel"
    /\ LET l == loc[t]
           d == l.date.v
           c == l.court.v
           s == l.slots.v[l.i]
       IN  IF s \in DOMAIN bookings[d][c]
           THEN /\ bookings' = with_slot_map(bookings, d, c,
                                   Restrict(bookings[d][c], DOMAIN bookings[d][c] \ {s}))
                /\ pc' = [pc EXCEPT ![t] = "rcheck"]
                /\ loc' = [loc EXCEPT ![t] = [@ EXCEPT !.i = l.i + 1,
                                                       !.busy = Append(l.busy, s)]]
           ELSE /\ bookings' = bookings
                /\ Finish(t, Fault("release"))
    /\ UNCHANGED <<utcnow, localnow, result, nbooks>>

\* app.py:115-117 and 158-177: the keys of the slot map of court "1" after
\* the second sweep, of court "2" after the third, then the response
AvailabilityRead(t) ==
    /\ pc[t] = "read"
    /\ LET l == loc[t]
           b2 == touch(bookings, l.date.v)
       IN  /\ bookings' = b2
           /\ IF l.phase = 2
              THEN /\ pc' = [pc EXCEPT ![t] = "collect"]
                   /\ loc' = [loc EXCEPT ![t] =
                                 [[sweep_start(@) EXCEPT !.phase = 3]
                                     EXCEPT !.busy = SortedTexts(DOMAIN b2[l.date.v]["1"]),
                                            !.maps = sweep_maps(b2)]]
              ELSE Finish(t, [op |-> "availability", code |-> 200, kind |-> "Ok",
                              date |-> l.date.v, slots |-> SLOTS_30,
                              courts |-> [c \in COURTS |->
                                  IF c = "1" THEN l.busy
                                  ELSE SortedTexts(DOMAIN b2[l.date.v]["2"])],
                              blocked |-> IF l.date.v = strftime_date(localnow)
                                          THEN slots_blocked_today(localnow)
                                          ELSE <<>>])
    /\ UNCHANGED <<utcnow, localnow, result, nbooks>>

\* the thread answers and is ready for its next request
StepReturn(t) ==
    /\ pc[t] = "done"
    /\ result' = loc[t].r
    /\ pc' = [pc EXCEPT ![t] = "idle"]
    /\ loc' = [loc EXCEPT ![t] = <<>>]
    /\ UNCHANGED <<bookings, utcnow, localnow, nbooks>>

NextSteps ==
    \/ Tick
    \/ \E t \in Threads : StepBegin(t)
    \/ \E t \in Threads : SweepCollect(t)
    \/ \E t \in Threads : SweepDelete(t)
    \/ \E t \in Threads : SweepEnd(t)
    \/ \E t \in Threads : StepBookCheck(t)
    \/ \E t \in Threads : StepBookWrite(t)
    \/ \E t \in Threads : ReleaseCheck(t)
    \/ \E t \in Threads : ReleaseDelete(t)
    \/ \E t \in Threads : AvailabilityRead(t)
    \/ \E t \in Threads : StepReturn(t)

SpecSteps == Init /\ [][NextSteps]_vars

----------------------------------------------------------------------------
(* Vocabulary of the properties, stated on the store and the clocks        *)
(* without the operators of the handlers.                                  *)

\* the requests the properties are evaluated on in every reachable state
ProbeRequests == DateInputs \X {Str("1"), Str("2")} \X AllLists

\* the slots with a stored hold on (d, c), and the creation time of one
Held(b, d, c) == IF d \in DOMAIN b THEN DOMAIN b[d][c] ELSE {}
HeldAt(b, d, c, s) == b[d][c][s].held_at

\* the stored holds of (d, c) whose age at `now` is at most ten minutes
Live(b, d, c, now) == {s \in Held(b, d, c) : now - HeldAt(b, d, c, s) <= 10}

\* position of a label in the calendar 08:00, 08:30, ..., 20:30 (from 0)
CalendarIndex(s) == CHOOSE i \in 0..25 : SLOTS_30[i + 1] = s

\* the slots are one run of the calendar: distinct, and no slot missing
IsRun(sl) ==
    LET I == {CalendarIndex(sl[k]) : k \in DOMAIN sl}
    IN  /\ Cardinality(I) = Len(sl)
        /\ \A i \in I, j \in I : \A k \in i..j : k \in I

\* the date text d names the day of the local clock
IsLocalToday(d) ==
    /\ IntOf(d[1]) = 2025
    /\ IntOf(d[2]) = 1
    /\ IntOf(d[3]) = 1 + localnow \div (24 * 60)

\* the start of slot s on the day of the local clock, as a local instant
StartToday(s) == (localnow \div (24 * 60)) * (24 * 60) + 8 * 60 + 30 * CalendarIndex(s)

\* some slot of sl starts at or before local now + 30 minutes
WithinBumper(sl) == \E k \in DOMAIN sl : StartToday(sl[k]) <= localnow + 30

----------------------------------------------------------------------------
(* C1  Sequential conflict exclusivity: a book request that passes the     *)
(* validation, the cutoff and the contiguity check is rejected with        *)
(* Conflict exactly when it names a slot with a live hold on its (date,    *)
(* court), and the conflicts it reports are the requested slots with a     *)
(* live hold, all of them and no other, in the order of the request.       *)

ConflictsAreTheLiveHolds ==
    \A q \in ProbeRequests :
        LET o == api_book(bookings, q[1], q[2], q[3], localnow, utcnow)
            live == Live(bookings, q[1].v, q[2].v, utcnow)
        IN  o.r.kind \in {"Ok", "Conflict"} =>
                IF Range(q[3].v) \cap live # {}
                THEN /\ o.r.kind = "Conflict"
                     /\ o.r.conflicts = SelectSeq(q[3].v, LAMBDA s : s \in live)
                ELSE o.r.kind = "Ok"

\* a second book request was rejected naming one held slot
ConflictReported ==
    /\ nbooks = 2
    /\ result.op = "book"
    /\ result.kind = "Conflict"
    /\ Len(result.conflicts) = 1

----------------------------------------------------------------------------
(* C3  Expiry boundary.  As the specification words it: a stored hold      *)
(* created at T is reported busy by availability at every time before      *)
(* T + 10 minutes and is not reported from T + 10 minutes on.              *)

----------------------------------------------------------------------------
(* C4  Contiguity: a book request of valid slots succeeds only if its      *)
(* slots are one run of the calendar, and a run that is not too soon and   *)
(* names no live hold is accepted.                                         *)

AcceptedIffRun ==
    \A q \in ProbeRequests :
        LET o == api_book(bookings, q[1], q[2], q[3], localnow, utcnow)
            live == Live(bookings, q[1].v, q[2].v, utcnow)
        IN  /\ o.r.kind = "Ok" => IsRun(q[3].v)
            /\ (/\ IsRun(q[3].v)
                /\ ~(IsLocalToday(q[1].v) /\ WithinBumper(q[3].v))
                /\ Range(q[3].v) \cap live = {}) => o.r.kind = "Ok"
            /\ (~IsRun(q[3].v) /\ o.r.kind # "TooSoon") => o.r.kind = "NonContiguous"

\* a run sent latest slot first was accepted
RunAccepted ==
    /\ result.op = "book"
    /\ result.kind = "Ok"
    /\ result.reserved = <<SLOTS_30[3], SLOTS_30[2]>>

----------------------------------------------------------------------------
(* C5  Book success postcondition: the holds of (date, court) become the   *)
(* live holds of before plus the requested slots, each new hold stamped    *)
(* now, the others untouched; the response carries the slots as requested, *)
(* the court, the date, the expiry now + 10 minutes and 600 seconds.       *)

----------------------------------------------------------------------------
(* C6  Same-day cutoff: a book request of valid slots for the day of the   *)
(* local clock is rejected with TooSoon exactly when one of its slots      *)
(* starts at or before local now + 30 minutes; a request for another day   *)
(* is never rejected with TooSoon.                                         *)

TooSoonIffWithinBumper ==
    \A q \in ProbeRequests :
        LET o == api_book(bookings, q[1], q[2], q[3], localnow, utcnow)
        IN  IF IsLocalToday(q[1].v)
            THEN (o.r.kind = "TooSoon") <=> WithinBumper(q[3].v)
            ELSE o.r.kind # "TooSoon"

\* a book was refused as too soon at the instant 30 minutes before 08:00,
\* the earliest start of the calendar
TooSoonAtTheBoundary ==
    /\ result.op = "book"
    /\ result.kind = "TooSoon"
    /\ StartToday(SLOTS_30[1]) = localnow + 30

----------------------------------------------------------------------------
(* C7  Cutoff consistency: at one local instant, a slot of the calendar is *)
(* in the `blocked` list of availability for a date exactly when a book    *)
(* request for that slot alone on that date is rejected with TooSoon,      *)
(* whatever is held.                                                       *)

BlockedIffTooSoon ==
    \A date \in DateInputs :
        LET a == api_availability(bookings, date, localnow, utcnow)
            blocked == Range(a.r.blocked)
        IN  \A c \in COURTS, s \in SlotLabels :
                LET o == api_book(bookings, date, Str(c), List(<<s>>), localnow, utcnow)
                IN  (s \in blocked) <=> (o.r.kind = "TooSoon")

\* availability for today listed 08:00 as blocked, 08:30 not, at 07:30 sharp
BlockedAtTheBoundary ==
    /\ result.op = "availability"
    /\ result.kind = "Ok"
    /\ IsLocalToday(result.date)
    /\ result.blocked = <<SLOTS_30[1]>>
    /\ StartToday(SLOTS_30[1]) = localnow + 30

----------------------------------------------------------------------------
(* C8  Release result and idempotence: a release of valid slots answers    *)
(* Ok with the requested slots that had a live hold, each once, in the     *)
(* order of the request; afterwards no requested slot is held; the same    *)
(* release again answers Ok with an empty list.                            *)

ReleaseReturnsTheLiveHolds ==
    \A q \in ProbeRequests :
        LET o == api_release(bookings, q[1], q[2], q[3], utcnow)
            again == api_release(o.b, q[1], q[2], q[3], utcnow)
            live == Live(bookings, q[1].v, q[2].v, utcnow)
        IN  /\ o.r.kind = "Ok"
            /\ Range(o.r.released) = Range(q[3].v) \cap live
            /\ Len(o.r.released) = Cardinality(Range(o.r.released))
            /\ \A i, j \in DOMAIN o.r.released :
                   i < j => \E k, l \in DOMAIN q[3].v :
                       k < l /\ q[3].v[k] = o.r.released[i] /\ q[3].v[l] = o.r.released[j]
            /\ Range(q[3].v) \cap Held(o.b, q[1].v, q[2].v) = {}
            /\ again.r.kind = "Ok"
            /\ again.r.released = <<>>

\* a release of two slots freed the one that was held
ReleasedOneOfTwo ==
    /\ result.op = "release"
    /\ result.kind = "Ok"
    /\ Len(result.released) = 1
    /\ nbooks > 0

----------------------------------------------------------------------------
(* C9  Release makes the slots bookable at once: when all slots of a run   *)
(* that is not too soon are held, the book of the same slots on the store  *)
(* the release leaves, at the same instant, succeeds.                      *)

BookableRightAfterRelease ==
    \A q \in ProbeRequests :
        LET rel == api_release(bookings, q[1], q[2], q[3], utcnow)
            o == api_book(rel.b, q[1], q[2], q[3], localnow, utcnow)
            live == Live(bookings, q[1].v, q[2].v, utcnow)
        IN  (/\ Range(q[3].v) \subseteq live
             /\ IsRun(q[3].v)
             /\ ~(IsLocalToday(q[1].v) /\ WithinBumper(q[3].v))) => o.r.kind = "Ok"

\* a release has just freed a held run of two slots that is still bookable,
\* and a book request can follow
ReleasedRunBookable ==
    /\ result.op = "release"
    /\ result.kind = "Ok"
    /\ Len(result.released) = 2
    /\ IsRun(result.released)
    /\ ~WithinBumper(result.released)
    /\ nbooks < MaxBooks

----------------------------------------------------------------------------
(* C10  No stale hold is observed: every slot availability reports busy,   *)
(* and every slot a book reports as a conflict, has a stored hold that is  *)
(* at most 10 minutes old at that instant.                                 *)

ObservedHoldsAreFresh ==
    LET fresh(d, c, s) == /\ s \in Held(bookings, d, c)
                          /\ utcnow - HeldAt(bookings, d, c, s) <= 10
    IN  /\ \A date \in DateInputs :
               LET a == api_availability(bookings, date, localnow, utcnow)
               IN  \A c \in COURTS : \A s \in Range(a.r.courts[c]) :
                       fresh(date.v, c, s)
        /\ \A q \in ProbeRequests :
               LET o == api_book(bookings, q[1], q[2], q[3], localnow, utcnow)
               IN  o.r.kind = "Conflict" =>
                       \A s \in Range(o.r.conflicts) : fresh(q[1].v, q[2].v, s)

\* a book was refused for a conflict with a hold that is 10 minutes old, the
\* only hold of the store
ConflictWithOldestFreshHold ==
    /\ result.op = "book"
    /\ result.kind = "Conflict"
    /\ \E d \in DOMAIN bookings, c \in COURTS :
           /\ Held(bookings, d, c) = Range(result.conflicts)
           /\ \A e \in DOMAIN bookings, k \in COURTS :
                  <<e, k>> # <<d, c>> => Held(bookings, e, k) = {}
           /\ \A s \in Held(bookings, d, c) : utcnow - HeldAt(bookings, d, c, s) = 10

----------------------------------------------------------------------------
(* C2  Concurrent conflict exclusivity: two book requests served by        *)
(* different threads never both succeed on one slot of one (date, court)   *)
(* while both holds last, that is unless one was committed after the       *)
(* expiry announced for the other.                                         *)

(* C11  Malformed input is always classified: every request to            *)
(* availability, book or release, whatever JSON value its body and its     *)
(* fields are, is answered Ok or with one of the seven rejection kinds,    *)
(* never with an internal fault (HTTP 500).                                *)

EveryRequestIsClassified ==
    /\ result.kind \in {"none", "Ok", "InvalidDate", "UnknownResource",
                        "EmptySelection", "InvalidSlot", "NonContiguous",
                        "TooSoon", "Conflict"}
    /\ result.code # 500

----------------------------------------------------------------------------
(* C12  Rejection precedence in book: a request whose fields are texts,    *)
(* lists or missing is answered with the first condition it violates in    *)
(* the order InvalidDate, UnknownResource, EmptySelection, InvalidSlot,     *)
(* TooSoon, NonContiguous, Conflict, and with Ok when it violates none.    *)

\* requests that violate none, one or several of the conditions
PrecedenceProbes ==
    {[t |-> "none", v |-> 0], Str(<<EpochYear, <<1, 3>>, <<0, 1>>>>),
     Str(Today), Str(Yesterday)}
        \X {[t |-> "none", v |-> 0], Str("3"), Str("1")}
        \X ({[t |-> "none", v |-> 0], List(<<>>), List(<<<<0, 7, 3, 0>>>>),
             List(<<<<0, 7, 3, 0>>, SLOTS_30[1]>>)} \cup AllLists)

\* the value is the text of a day of the calendar
IsDay(x) ==
    /\ x.t = "str"
    /\ Len(x.v) = 3
    /\ IntOf(x.v[2]) \in 1..12
    /\ IntOf(x.v[3]) \in 1..31

\* the first condition the request violates, in the order of the claim
FirstViolation(date, court, slots) ==
    IF ~IsDay(date) THEN "InvalidDate"
    ELSE IF court \notin {Str("1"), Str("2")} THEN "UnknownResource"
    ELSE IF slots.t # "list" \/ Len(slots.v) = 0 THEN "EmptySelection"
    ELSE IF \E k \in DOMAIN slots.v : \A i \in 1..26 : SLOTS_30[i] # slots.v[k]
         THEN "InvalidSlot"
    ELSE IF IsLocalToday(date.v) /\ WithinBumper(slots.v) THEN "TooSoon"
    ELSE IF ~IsRun(slots.v) THEN "NonContiguous"
    ELSE IF Range(slots.v) \cap Live(bookings, date.v, court.v, utcnow) # {}
         THEN "Conflict"
    ELSE "Ok"

RejectedWithFirstViolation ==
    \A q \in PrecedenceProbes :
        api_book(bookings, q[1], q[2], q[3], localnow, utcnow).r.kind
            = FirstViolation(q[1], q[2], q[3])

\* the second book request was refused as not contiguous while 08:30 and
\* 09:00 were held and 08:00 was too soon: the only requests the server
\* takes that are not runs and not too soon then name 08:30 or 09:00 twice,
\* both held
NonContiguousBeforeConflict ==
    /\ result.op = "book"
    /\ result.kind = "NonContiguous"
    /\ nbooks = 2
    /\ WithinBumper(<<SLOTS_30[1]>>)
    /\ Live(bookings, Today, "1", utcnow) = {SLOTS_30[2], SLOTS_30[3]}

----------------------------------------------------------------------------
(* C13  Availability result exactness: for a valid date, availability      *)
(* answers with the 26 half-hour labels 08:00 .. 20:30 in chronological    *)
(* order, and for each court with the slots that have a live hold on       *)
(* (date, court): all of them, no other, each once, earliest first.        *)

\* the label of the half hour that starts n minutes after midnight
LabelAt(n) ==
    <<(n \div 60) \div 10, (n \div 60) % 10, (n % 60) \div 10, (n % 60) % 10>>

AvailabilityIsExact ==
    \A date \in DateInputs :
        LET a == api_availability(bookings, date, localnow, utcnow).r
        IN  /\ a.kind = "Ok"
            /\ a.slots = [i \in 1..26 |-> LabelAt(8 * 60 + 30 * (i - 1))]
            /\ \A c \in {"1", "2"} :
                   /\ Range(a.courts[c]) = Live(bookings, date.v, c, utcnow)
                   /\ \A i, j \in DOMAIN a.courts[c] :
                          i < j => CalendarIndex(a.courts[c][i])
                                       < CalendarIndex(a.courts[c][j])

\* availability has just listed three busy slots of court 1, which two
\* bookings made
ThreeBusyListed ==
    /\ result.op = "availability"
    /\ result.kind = "Ok"
    /\ Len(result.courts["1"]) = 3
    /\ nbooks = 2

----------------------------------------------------------------------------
(* C14  Sweep idempotence: on every store and for every time now, the      *)
(* sweep run again at the same now leaves the store the first run left.    *)

\* the times a sweep is tried at: now and up to 20 minutes later
SweepTimes == {utcnow + 5 * k : k \in 0..4}

SweepIsIdempotent ==
    \A now \in SweepTimes :
        LET once == cleanup_expired(bookings, now)
        IN  cleanup_expired(once, now) = once

\* the store holds two slots in one ledger that a sweep at one of these
\* times removes, and a slot that the same sweep keeps
TwoToSweepOneToKeep ==
    \E now \in SweepTimes : \E d \in DOMAIN bookings, c \in COURTS :
        /\ \E s, u \in Held(bookings, d, c) :
               /\ s # u
               /\ HeldAt(bookings, d, c, s) + 10 < now
               /\ HeldAt(bookings, d, c, u) + 10 < now
        /\ \E e \in DOMAIN bookings, k \in COURTS : \E w \in Held(bookings, e, k) :
               HeldAt(bookings, e, k, w) + 10 >= now

----------------------------------------------------------------------------
(* C15  Availability is read-only: after an availability query, whatever   *)
(* its date, the holds of the store are the holds that were live before    *)
(* it, each with the timestamp it had: none is created, none that is live  *)
(* is removed, none is restamped.  A date with no hold is reported with    *)
(* every slot of the calendar free on both courts.                         *)

\* the dates availability is asked for: valid, not a day, missing
QueryDates ==
    DateInputs \cup {[t |-> "none", v |-> 0], Str(<<EpochYear, <<1, 3>>, <<0, 1>>>>)}

AvailabilityOnlySweeps ==
    \A date \in QueryDates :
        LET a == api_availability(bookings, date, localnow, utcnow)
            D == DOMAIN bookings \cup DOMAIN a.b
        IN  /\ \A d \in D, c \in {"1", "2"} :
                   /\ Held(a.b, d, c) \subseteq Held(bookings, d, c)
                   /\ Live(bookings, d, c, utcnow) \subseteq Held(a.b, d, c)
                   /\ \A s \in Held(a.b, d, c) :
                          HeldAt(a.b, d, c, s) = HeldAt(bookings, d, c, s)
            /\ (a.r.kind = "Ok" /\ \A c \in {"1", "2"} : Held(bookings, date.v, c) = {})
                   => /\ Len(a.r.slots) = 26
                      /\ \A c \in {"1", "2"} : a.r.courts[c] = <<>>

\* availability has just reported a date with no hold as free, and the store
\* keeps an older hold of another date
FreshDateNextToOlderHold ==
    /\ result.op = "availability"
    /\ result.kind = "Ok"
    /\ result.courts["1"] = <<>>
    /\ result.courts["2"] = <<>>
    /\ \E d \in DOMAIN bookings, c \in COURTS : \E s \in Held(bookings, d, c) :
           d # result.date /\ HeldAt(bookings, d, c, s) < utcnow

----------------------------------------------------------------------------
(* C16  Contiguity test.  As the specification words it: a book request    *)
(* of valid slots that is not too soon passes the contiguity step exactly  *)
(* when max index - min index + 1 equals the number of entries of its      *)
(* list, also when the list names a slot more than once.                   *)

\* the requests the contiguity step is tried on: today and the day after,
\* which is never too soon
LongProbes == {Str(Today), Str(Tomorrow)} \X {Str("1")} \X LongLists

\* max index - min index + 1 = number of entries
SpanEqualsCount(sl) ==
    LET I == {CalendarIndex(sl[k]) : k \in DOMAIN sl}
    IN  \A lo \in I, hi \in I :
            ((\A i \in I : lo <= i /\ i <= hi)) => hi - lo + 1 = Len(sl)

\* no slot is named twice
NoRepeat(sl) == \A i, j \in DOMAIN sl : sl[i] = sl[j] => i = j

PassesIffSpanEqualsCount ==
    \A q \in LongProbes :
        LET k == api_book(bookings, q[1], q[2], q[3], localnow, utcnow).r.kind
        IN  k # "TooSoon" =>
                (k \in {"Ok", "Conflict"} <=> SpanEqualsCount(q[3].v))

(* C16 as the code has it: the request passes the contiguity step exactly  *)
(* when no slot is named twice and max index - min index + 1 equals the    *)
(* number of entries; every other request is rejected with NonContiguous.  *)

PassesIffDistinctAndSpanEqualsCount ==
    \A q \in LongProbes :
        LET k == api_book(bookings, q[1], q[2], q[3], localnow, utcnow).r.kind
        IN  k # "TooSoon" =>
                /\ k \in {"Ok", "Conflict"}
                       <=> (NoRepeat(q[3].v) /\ SpanEqualsCount(q[3].v))
                /\ k \notin {"Ok", "Conflict"} => k = "NonContiguous"

\* the request 08:00, 08:00, 09:00 (three entries that span three slots)
\* was rejected with NonContiguous
RepeatedSlotRejected ==
    /\ result.op = "book"
    /\ result.kind = "NonContiguous"
    /\ loc["w1"].slots.v = <<SLOTS_30[1], SLOTS_30[1], SLOTS_30[3]>>

----------------------------------------------------------------------------
(* C17  Re-request at the announced expiry: a hold created at T was        *)
(* announced to expire at T + 10 minutes; from that time on, a book        *)
(* request is not rejected with Conflict on account of that hold.          *)

NoConflictFromTheAnnouncedExpiry ==
    \A q \in ProbeRequests :
        LET o == api_book(bookings, q[1], q[2], q[3], localnow, utcnow)
        IN  o.r.kind = "Conflict" =>
                \A s \in Range(o.r.conflicts) :
                    utcnow < HeldAt(bookings, q[1].v, q[2].v, s) + 10

----------------------------------------------------------------------------
(* C18  No hold on a slot that has started or is about to start: every     *)
(* hold of the store was created for a slot of a date whose start, as a    *)
(* local instant, was later than the local time of the booking plus 30     *)
(* minutes; this covers the day of the local clock and the days before.    *)

\* the start of slot s on the day the text d names, as a local instant
StartOn(d, s) ==
    (IntOf(d[3]) - 1) * (24 * 60) + 8 * 60 + 30 * CalendarIndex(s)

\* the local time at the UTC instant t: the two clocks advance together
LocalAt(t) == t + (localnow - utcnow)

HoldsStartAfterTheBumper ==
    \A d \in DOMAIN bookings, c \in {"1", "2"} : \A s \in Held(bookings, d, c) :
        StartOn(d, s) > LocalAt(HeldAt(bookings, d, c, s)) + 30

----------------------------------------------------------------------------
(* C19  Per-slot state machine, one request at a time: whatever request    *)
(* the server takes next, a slot of a (date, court) that is free becomes   *)
(* held only by a successful book that names it, stamped now; a held slot  *)
(* becomes free only by a release that names it or because its hold has    *)
(* expired; a live hold is never restamped, and a book that names a slot   *)
(* with a live hold does not succeed.                                      *)

\* the change of slot s of (d, c) from store b0 to store b1 is a transition
\* of the state machine; `booked`: a successful book named the slot,
\* `released`: a release named it
SlotStep(b0, b1, d, c, s, booked, released) ==
    LET h0 == s \in Held(b0, d, c)
        h1 == s \in Held(b1, d, c)
        live == s \in Live(b0, d, c, utcnow)
    IN  /\ (~h0 /\ h1) => (booked /\ HeldAt(b1, d, c, s) = utcnow)
        /\ (h0 /\ ~h1) => (released \/ ~live)
        /\ (h0 /\ h1) =>
               \/ HeldAt(b1, d, c, s) = HeldAt(b0, d, c, s)
               \/ ~live /\ booked /\ HeldAt(b1, d, c, s) = utcnow
        /\ live => ~booked

\* every slot held before or after obeys the state machine
StoreStep(b1, qd, qc, named, booked, released) ==
    \A d \in DOMAIN bookings \cup DOMAIN b1, c \in {"1", "2"} :
        \A s \in Held(bookings, d, c) \cup Held(b1, d, c) :
            LET hit == d = qd /\ c = qc /\ s \in named
            IN  SlotStep(bookings, b1, d, c, s, booked /\ hit, released /\ hit)

SlotsFollowTheStateMachine ==
    /\ \A q \in ProbeRequests :
           LET bk == api_book(bookings, q[1], q[2], q[3], localnow, utcnow)
               rl == api_release(bookings, q[1], q[2], q[3], utcnow)
           IN  /\ StoreStep(bk.b, q[1].v, q[2].v, Range(q[3].v),
                            bk.r.kind = "Ok", FALSE)
               /\ StoreStep(rl.b, q[1].v, q[2].v, Range(q[3].v),
                            FALSE, rl.r.kind = "Ok")
    /\ \A date \in DateInputs :
           StoreStep(api_availability(bookings, date, localnow, utcnow).b,
                     date.v, "1", {}, FALSE, FALSE)

\* a book request naming two held slots was refused, and both holds keep
\* the timestamp of five minutes ago
HeldSlotsKeptTheirTimestamp ==
    /\ result.op = "book"
    /\ result.kind = "Conflict"
    /\ Len(result.conflicts) = 2
    /\ \A s \in Range(result.conflicts) :
           /\ s \in Held(bookings, Today, "1")
           /\ HeldAt(bookings, Today, "1", s) = utcnow - 5

----------------------------------------------------------------------------
(* C20  Sweep is the first step of every public operation: when a request  *)
(* to availability, book or release has been answered, also with a         *)
(* rejection, the store holds no hold older than 10 minutes.               *)

NoExpiredHoldAfterARequest ==
    result.op # "none" =>
        \A d \in DOMAIN bookings, c \in {"1", "2"} : \A s \in Held(bookings, d, c) :
            utcnow - HeldAt(bookings, d, c, s) <= 10

----------------------------------------------------------------------------
(* C21  A fresh hold survives concurrent sweeps: in every step of the      *)
(* interleaved threads, a hold that leaves the store is at that moment     *)
(* older than 10 minutes, or the step is the delete of a release that      *)
(* names its slot on its (date, court).                                    *)

\* thread t is at the `del` of its release loop for slot s of (d, c)
ReleasingNow(t, d, c, s) ==
    /\ pc[t] = "rdel"
    /\ loc[t].date.v = d
    /\ loc[t].court.v = c
    /\ loc[t].slots.v[loc[t].i] = s

OnlyExpiredOrReleasedHoldsLeave ==
    [][\A d \in DOMAIN bookings, c \in {"1", "2"} : \A s \in DOMAIN bookings[d][c] :
          s \notin DOMAIN bookings'[d][c] =>
              \/ utcnow - bookings[d][c][s].held_at > 10
              \/ \E t \in Threads : ReleasingNow(t, d, c, s) /\ pc'[t] # "rdel"]_vars

----------------------------------------------------------------------------
(* C22  No internal fault under concurrency: every request the interleaved *)
(* threads serve (availability, book, release, with valid payloads) ends   *)
(* in success or in one of the seven rejection kinds.                      *)

NoFaultInAnyThread ==
    \A t \in Threads :
        pc[t] = "done" =>
            loc[t].r.kind \in {"Ok", "InvalidDate", "UnknownResource",
                               "EmptySelection", "InvalidSlot", "NonContiguous",
                               "TooSoon", "Conflict"}

----------------------------------------------------------------------------
(* C23  Holds eventually lapse without release: when time keeps advancing  *)
(* and availability keeps being asked, every hold of the store is          *)
(* eventually gone from it, and then a book request for its slot alone is  *)
(* not refused for a conflict or any reason but the same-day cutoff.       *)

\* the times a hold can be created at: those at which a book request is taken
HoldTimes ==
    {T \in {StartUtc + Max(TickMinutes) * k : k \in 0..MaxTicks} :
        T + HOLD_DELTA < StartUtc + MaxTicks * Max(TickMinutes)}

\* the slots of the store with a hold created at T
HoldsOf(T) ==
    {x \in (DOMAIN bookings) \X {"1", "2"} \X ReqLabels :
        /\ x[3] \in Held(bookings, x[1], x[2])
        /\ HeldAt(bookings, x[1], x[2], x[3]) = T}

\* a book request for any one slot that has no hold is answered Ok, or
\* TooSoon by the same-day cutoff
FreeSlotsAreBookable ==
    \A d \in {Today, Yesterday}, c \in {"1", "2"}, s \in ReqLabels :
        s \notin Held(bookings, d, c) =>
            api_book(bookings, Str(d), Str(c), List(<<s>>), localnow, utcnow).r.kind
                \in {"Ok", "TooSoon"}

EveryHoldLapses ==
    \A T \in HoldTimes :
        (HoldsOf(T) # {}) ~> (HoldsOf(T) = {} /\ FreeSlotsAreBookable)

\* a hold that was never released is still stored when it is older than 10
\* minutes: the next sweep is the one that lets it lapse
LapsedHoldStillStored ==
    \E d \in DOMAIN bookings, c \in COURTS : \E s \in Held(bookings, d, c) :
        utcnow - HeldAt(bookings, d, c, s) > 10

----------------------------------------------------------------------------
(* C24  Booking is all-or-nothing: a book request that is rejected, for    *)
(* whichever of InvalidDate, UnknownResource, EmptySelection, InvalidSlot, *)
(* TooSoon, NonContiguous or Conflict, leaves every hold of the store      *)
(* with its timestamp or removes it because it is older than 10 minutes,   *)
(* and creates none: the free slots of a conflicting request stay free.    *)

\* from store b0 to store b1 no hold is created or re-stamped, and only
\* holds older than 10 minutes are removed
OnlyExpiredRemoved(b0, b1) ==
    \A d \in DOMAIN b0 \cup DOMAIN b1, c \in {"1", "2"} :
        /\ \A s \in Held(b1, d, c) :
               /\ s \in Held(b0, d, c)
               /\ HeldAt(b1, d, c, s) = HeldAt(b0, d, c, s)
        /\ \A s \in Held(b0, d, c) \ Held(b1, d, c) :
               utcnow - HeldAt(b0, d, c, s) > 10

RejectedBookCreatesNothing ==
    \A q \in PrecedenceProbes :
        LET o == api_book(bookings, q[1], q[2], q[3], localnow, utcnow)
        IN  o.r.kind # "Ok" => OnlyExpiredRemoved(bookings, o.b)

\* a book request was refused for a conflict on 09:00 while 08:30 of the
\* same ledger is free, and the request for 08:30 and 09:00 together is
\* refused naming 09:00 only and leaves 08:30 free
FreeSlotOfAConflictStaysFree ==
    /\ result.op = "book"
    /\ result.kind = "Conflict"
    /\ result.conflicts = <<SLOTS_30[3]>>
    /\ SLOTS_30[2] \notin Held(bookings, Today, "1")
    /\ LET o == api_book(bookings, Str(Today), Str("1"),
                         List(<<SLOTS_30[2], SLOTS_30[3]>>), localnow, utcnow)
       IN  /\ o.r.kind = "Conflict"
           /\ o.r.conflicts = <<SLOTS_30[3]>>
           /\ SLOTS_30[2] \notin Held(o.b, Today, "1")

----------------------------------------------------------------------------
(* C25  Ledger isolation: a book or release request on (date, court)       *)
(* creates no hold and removes or re-stamps no hold that is at most 10     *)
(* minutes old, on any other date or court and on the slots of the same    *)
(* ledger that the request does not name.                                  *)

\* from the store to store b1, outside the named slots of (qd, qc): every
\* hold of at most 10 minutes stays with its timestamp and none is created
OthersUntouched(b1, qd, qc, named) ==
    \A d \in DOMAIN bookings \cup DOMAIN b1, c \in {"1", "2"} :
        \A s \in (Held(bookings, d, c) \cup Held(b1, d, c)) :
            (d # qd \/ c # qc \/ s \notin named) =>
                /\ s \in Live(bookings, d, c, utcnow) =>
                       /\ s \in Held(b1, d, c)
                       /\ HeldAt(b1, d, c, s) = HeldAt(bookings, d, c, s)
                /\ s \in Held(b1, d, c) =>
                       /\ s \in Held(bookings, d, c)
                       /\ HeldAt(b1, d, c, s) = HeldAt(bookings, d, c, s)

LedgersAreIsolated ==
    \A q \in ProbeRequests :
        /\ OthersUntouched(
               api_book(bookings, q[1], q[2], q[3], localnow, utcnow).b,
               q[1].v, q[2].v, Range(q[3].v))
        /\ OthersUntouched(api_release(bookings, q[1], q[2], q[3], utcnow).b,
                           q[1].v, q[2].v, Range(q[3].v))

\* 08:30 of today has just been held on court 2 while the hold of 08:30 on
\* court 1 is five minutes old, and 08:30 of yesterday is free on court 1
SameSlotHeldOnBothCourts ==
    /\ result.op = "book"
    /\ result.kind = "Ok"
    /\ result.court = "2"
    /\ result.date = Today
    /\ SLOTS_30[2] \in Held(bookings, Today, "2")
    /\ HeldAt(bookings, Today, "2", SLOTS_30[2]) = utcnow
    /\ SLOTS_30[2] \in Held(bookings, Today, "1")
    /\ HeldAt(bookings, Today, "1", SLOTS_30[2]) = utcnow - 5
    /\ SLOTS_30[2] \notin Held(bookings, Yesterday, "1")

----------------------------------------------------------------------------
(* C26  One ledger per calendar day: today's date written with and without *)
(* the leading zeros, both accepted by the date validation, gets the same  *)
(* answers: book is refused or accepted alike, with the same conflicts,    *)
(* release releases the same slots, and availability reports the same busy *)
(* slots of both courts and the same slots blocked by the same-day cutoff. *)

OneLedgerPerDay ==
    /\ valid_date(Today) /\ valid_date(TodayShort)
    /\ \A c \in {Str("1"), Str("2")}, l \in AllLists :
           LET p == api_book(bookings, Str(Today), c, l, localnow, utcnow).r
               u == api_book(bookings, Str(TodayShort), c, l, localnow, utcnow).r
               rp == api_release(bookings, Str(Today), c, l, utcnow).r
               ru == api_release(bookings, Str(TodayShort), c, l, utcnow).r
           IN  /\ p.kind = u.kind
               /\ p.kind = "Conflict" => p.conflicts = u.conflicts
               /\ rp.released = ru.released
    /\ LET p == api_availability(bookings, Str(Today), localnow, utcnow).r
           u == api_availability(bookings, Str(TodayShort), localnow, utcnow).r
       IN  /\ p.courts = u.courts
           /\ p.blocked = u.blocked

----------------------------------------------------------------------------
NoDoubleBooking ==
    \A t, u \in Threads :
        (/\ t # u
         /\ pc[t] = "done" /\ loc[t].r.kind = "Ok"
         /\ pc[u] = "done" /\ loc[u].r.kind = "Ok"
         /\ loc[t].r.date = loc[u].r.date
         /\ loc[t].r.court = loc[u].r.court
         /\ Range(loc[t].r.reserved) \cap Range(loc[u].r.reserved) # {})
            => \/ loc[u].now > loc[t].r.expires_at
               \/ loc[t].now > loc[u].r.expires_at

====
